---- MODULE Spec2Model ----
(***************************************************************************)
(* A model of the restweb backend (src/main.py): the six tables created by *)
(* startup(), the connection pool, the upload directory, and the request   *)
(* handlers as the steps the event loop can interleave (one step per       *)
(* statement the handler awaits on the store or the filesystem).           *)
(*                                                                         *)
(* Not modelled: the created_at columns (no clock), the contact_us table   *)
(* (write-only), connectivity failures of the store.  A store statement    *)
(* fails here only for a reason the schema gives: a UNIQUE, FOREIGN KEY or *)
(* VARCHAR(255) violation.  uuid.uuid4() is modelled as never repeating.   *)
(***************************************************************************)
EXTENDS Integers, Sequences, FiniteSets, TLC

\* ------------------------------------------------------------------ bounds
NumClients == 2      \* concurrent requests in flight
MaxRequests == 3     \* requests issued in one behaviour
PoolSize == 1        \* connections the pool hands out at once (create_pool)

Clients == 1..NumClients

Emails == {"a@x.io", "b@x.io"}
Usernames == {"alice", "bob"}
Passwords == {"pw1", "pw2"}
Salts == {"s1"}

Catalogs == {"events", "services", "team_members"}
VarcharMax == 255                     \* name VARCHAR(255)
LongName == "a name of 256 characters"
Names == {"Gala", LongName}
PlainFilenames == {"a.png"}           \* leaf names: the file lands in UPLOAD_DIR
Filenames == PlainFilenames \cup {"nodir/b.png"}
FileData == {<<1>>, <<2, 3>>}
NoFile == <<-1>>                      \* no such file

NoRow == [none |-> TRUE]
NoResp == [status |-> 0, body |-> [none |-> TRUE]]
NoLocal == [op |-> "none"]

VARIABLES
    users,            \* rows of table users, in storage order
    users_id_seq,     \* the SERIAL sequence behind users.id
    uuidCount,        \* how many uuid4() values were generated
    bookings,         \* rows of table bookings, in storage order
    bookings_id_seq,  \* the SERIAL sequence behind bookings.id
    catalog,          \* per catalog table (events, services, team_members): rows
    catalog_id_seq,   \* per catalog table: the SERIAL sequence behind id
    files,            \* content of each file under UPLOAD_DIR
    checkedOut,       \* connections acquired from app.state.db_pool
    pc,               \* per client: where its handler is suspended
    local,            \* per client: the handler's local variables
    resp,             \* the response most recently sent
    issued            \* requests issued so far

userVars == <<users, users_id_seq, uuidCount>>
bookVars == <<bookings, bookings_id_seq>>
catVars == <<catalog, catalog_id_seq, files>>
vars == <<users, users_id_seq, uuidCount, bookings, bookings_id_seq, catalog,
          catalog_id_seq, files, checkedOut, pc, local, resp, issued>>

\* ------------------------------------------------------- password hashing
\* bcrypt: a salted digest; injective in (salt, password), not the identity.
hash_password(password, salt) ==
    [scheme |-> "bcrypt", salt |-> salt, digest |-> <<salt, password>>]

verify_password(plain_password, hashed_password) ==
    hashed_password.digest = <<hashed_password.salt, plain_password>>

\* --------------------------------------------------------------- responses
\* A text is a tuple of string pieces; an f-string concatenates them.
HTTPException(status_code, detail) ==
    [status |-> status_code, body |-> [detail |-> detail]]

Ok(body) == [status |-> 200, body |-> body]

\* An exception no handler catches: the framework answers 500.
Unhandled == [status |-> 500, body |-> [detail |-> <<"Internal Server Error">>]]

\* ------------------------------------------------------------ users table
\* A faulty variant: the lookup compares the wrong column.
fetchrow_user_by_username(tbl, email) ==
    LET hit == {i \in 1..Len(tbl) : tbl[i].username = email}
    IN  IF hit = {} THEN NoRow
        ELSE tbl[CHOOSE i \in hit : \A j \in hit : i <= j]

\* SELECT * FROM users WHERE email = $1, first row or none (fetchrow)
fetchrow_user(tbl, email) ==
    LET hit == {i \in 1..Len(tbl) : tbl[i].email = email}
    IN  IF hit = {} THEN NoRow
        ELSE tbl[CHOOSE i \in hit : \A j \in hit : i <= j]

\* A faulty variant: the email column without its UNIQUE constraint.
users_email_not_unique(tbl, email) == TRUE

\* email VARCHAR(255) UNIQUE NOT NULL
users_email_unique(tbl, email) == \A i \in 1..Len(tbl) : tbl[i].email # email

\* user_id UUID UNIQUE NOT NULL
users_user_id_unique(tbl, user_id) ==
    \A i \in 1..Len(tbl) : tbl[i].user_id # user_id

\* INSERT INTO users: whether the store accepts the row
users_insert_ok(tbl, user_id, email) ==
    users_email_unique(tbl, email) /\ users_user_id_unique(tbl, user_id)

\* INSERT INTO users (user_id, email, username, password): the table after it
users_insert(tbl, id, user_id, email, username, hashed_password) ==
    IF users_insert_ok(tbl, user_id, email)
    THEN Append(tbl, [id |-> id, user_id |-> user_id, email |-> email,
                      username |-> username, password |-> hashed_password])
    ELSE tbl

PoolFree == checkedOut < PoolSize

Finish(c, r) ==
    /\ pc' = [pc EXCEPT ![c] = "idle"]
    /\ local' = [local EXCEPT ![c] = NoLocal]
    /\ resp' = r

\* ------------------------------------------------------------------ signup
\* The SELECT and what follows it up to the await of the INSERT.
signup_lookup(c, email, username, password, salt) ==
    /\ pc[c] = "idle"
    /\ issued < MaxRequests
    /\ PoolFree
    /\ issued' = issued + 1
    /\ LET existing_user == fetchrow_user(users, email)
       IN  IF existing_user # NoRow
           THEN /\ Finish(c, HTTPException(400, <<"Email is already registered.">>))
                /\ UNCHANGED <<users, users_id_seq, uuidCount>>
           ELSE /\ uuidCount' = uuidCount + 1
                /\ pc' = [pc EXCEPT ![c] = "signup_insert"]
                /\ local' = [local EXCEPT ![c] =
                       [op |-> "signup", email |-> email, username |-> username,
                        password |-> password, user_id |-> uuidCount + 1,
                        hashed_password |-> hash_password(password, salt)]]
                /\ UNCHANGED <<users, users_id_seq, resp>>
    /\ UNCHANGED <<bookVars, catVars, checkedOut>>

\* A faulty variant: the rejected INSERT is answered as the Conflict of the lookup.
signup_insert_conflict(c) ==
    /\ pc[c] = "signup_insert"
    /\ PoolFree
    /\ users_id_seq' = users_id_seq + 1
    /\ LET l == local[c]
       IN  /\ users' = users_insert(users, users_id_seq + 1, l.user_id, l.email,
                                    l.username, l.hashed_password)
           /\ IF users_insert_ok(users, l.user_id, l.email)
              THEN Finish(c, Ok([message |-> "User registered successfully.",
                                 user_id |-> l.user_id]))
              ELSE Finish(c, HTTPException(400, <<"Email is already registered.">>))
    /\ UNCHANGED <<uuidCount, bookVars, catVars, checkedOut, issued>>

\* The INSERT and the return.
signup_insert(c) ==
    /\ pc[c] = "signup_insert"
    /\ PoolFree
    /\ users_id_seq' = users_id_seq + 1
    /\ LET l == local[c]
       IN  /\ users' = users_insert(users, users_id_seq + 1, l.user_id, l.email,
                                    l.username, l.hashed_password)
           /\ IF users_insert_ok(users, l.user_id, l.email)
              THEN Finish(c, Ok([message |-> "User registered successfully.",
                                 user_id |-> l.user_id]))
              ELSE Finish(c, Unhandled)
    /\ UNCHANGED <<uuidCount, bookVars, catVars, checkedOut, issued>>

\* ------------------------------------------------------------------- login
\* A faulty variant: an unknown email gets a message of its own.
login_response_distinct(tbl, email, password) ==
    LET db_user == fetchrow_user(tbl, email)
    IN  IF db_user = NoRow
        THEN HTTPException(400, <<"Unknown email.">>)
        ELSE IF ~verify_password(password, db_user.password)
        THEN HTTPException(400, <<"Invalid email or password.">>)
        ELSE Ok([message |-> "Login successful",
                 user |-> [user_id |-> db_user.user_id,
                           email |-> db_user.email,
                           username |-> db_user.username]])

login_response(tbl, email, password) ==
    LET db_user == fetchrow_user(tbl, email)
    IN  IF db_user = NoRow \/ ~verify_password(password, db_user.password)
        THEN HTTPException(400, <<"Invalid email or password.">>)
        ELSE Ok([message |-> "Login successful",
                 user |-> [user_id |-> db_user.user_id,
                           email |-> db_user.email,
                           username |-> db_user.username]])

login(c, email, password) ==
    /\ pc[c] = "idle"
    /\ issued < MaxRequests
    /\ PoolFree
    /\ issued' = issued + 1
    /\ Finish(c, login_response(users, email, password))
    /\ UNCHANGED <<userVars, bookVars, catVars, checkedOut>>

\* ---------------------------------------------------------------- bookings
\* A datetime: wall-clock hour count, and the UTC offset when it is aware.
Naive(wall) == [wall |-> wall, aware |-> FALSE, offset |-> 0]
Aware(wall, offset) == [wall |-> wall, aware |-> TRUE, offset |-> offset]

\* A faulty variant: the zone is replaced by UTC instead of converted to it.
ensure_timezone_replace(value) == Aware(value.wall, 0)

\* BookingInput.ensure_timezone: a naive value is taken as UTC, an aware one
\* is converted to UTC.
ensure_timezone(value) ==
    LET v == IF ~value.aware THEN Aware(value.wall, 0) ELSE value
    IN  Aware(v.wall - v.offset, 0)

\* BookingInput(**body): the validated model the handler receives
BookingInput(body) == [body EXCEPT !.datetime = ensure_timezone(body.datetime)]

\* FOREIGN KEY (user_id) REFERENCES users (user_id)
bookings_user_fk(utbl, user_id) ==
    \E i \in 1..Len(utbl) : utbl[i].user_id = user_id

\* INSERT INTO bookings (...): the table after it
bookings_insert(btbl, utbl, id, booking) ==
    IF bookings_user_fk(utbl, booking.user_id)
    THEN Append(btbl, [id |-> id, user_id |-> booking.user_id,
                       name |-> booking.name, email |-> booking.email,
                       datetime |-> booking.datetime,
                       no_of_people |-> booking.no_of_people,
                       special_request |-> booking.special_request])
    ELSE btbl

\* conn = await app.state.db_pool.acquire()
book_table_acquire(c, body) ==
    /\ pc[c] = "idle"
    /\ issued < MaxRequests
    /\ PoolFree
    /\ issued' = issued + 1
    /\ checkedOut' = checkedOut + 1
    /\ pc' = [pc EXCEPT ![c] = "book_insert"]
    /\ local' = [local EXCEPT ![c] =
           [op |-> "book_table", body |-> body, booking |-> BookingInput(body)]]
    /\ UNCHANGED <<userVars, bookVars, catVars, resp>>

\* A faulty variant: the release is on the success path only.
book_table_insert_no_finally(c) ==
    /\ pc[c] = "book_insert"
    /\ bookings_id_seq' = bookings_id_seq + 1
    /\ bookings' = bookings_insert(bookings, users, bookings_id_seq + 1,
                                   local[c].booking)
    /\ IF bookings_user_fk(users, local[c].booking.user_id)
       THEN /\ pc' = [pc EXCEPT ![c] = "book_release"]
            /\ local' = [local EXCEPT ![c] =
                   [local[c] EXCEPT !.op = "book_table_finally"] @@
                   [outcome |-> Ok([message |-> "Table booked successfully."])]]
            /\ UNCHANGED resp
       ELSE Finish(c, HTTPException(500, <<"ForeignKeyViolationError">>))
    /\ UNCHANGED <<userVars, catVars, checkedOut, issued>>

\* try: await conn.execute(INSERT ...); return / except: raise 500
book_table_insert(c) ==
    /\ pc[c] = "book_insert"
    /\ bookings_id_seq' = bookings_id_seq + 1
    /\ bookings' = bookings_insert(bookings, users, bookings_id_seq + 1,
                                   local[c].booking)
    /\ pc' = [pc EXCEPT ![c] = "book_release"]
    /\ local' = [local EXCEPT ![c] =
           [local[c] EXCEPT !.op = "book_table_finally"] @@
           [outcome |->
               IF bookings_user_fk(users, local[c].booking.user_id)
               THEN Ok([message |-> "Table booked successfully."])
               ELSE HTTPException(500, <<"ForeignKeyViolationError">>)]]
    /\ UNCHANGED <<userVars, catVars, checkedOut, resp, issued>>

\* finally: await app.state.db_pool.release(conn)
book_table_release(c) ==
    /\ pc[c] = "book_release"
    /\ checkedOut' = checkedOut - 1
    /\ Finish(c, local[c].outcome)
    /\ UNCHANGED <<userVars, bookVars, catVars, issued>>

\* SELECT * FROM bookings WHERE user_id = $1
bookings_by_user(btbl, user_id) ==
    LET Mine(b) == b.user_id = user_id IN SelectSeq(btbl, Mine)

get_bookings_response(btbl, user_id) ==
    LET found == bookings_by_user(btbl, user_id)
    IN  IF found = <<>>
        THEN HTTPException(404, <<"No bookings found for this user.">>)
        ELSE Ok([user_id |-> user_id,
                 bookings |-> [i \in 1..Len(found) |->
                     [name |-> found[i].name, email |-> found[i].email,
                      datetime |-> found[i].datetime,
                      no_of_people |-> found[i].no_of_people,
                      special_request |-> found[i].special_request]]])

get_bookings(c, user_id) ==
    /\ pc[c] = "idle"
    /\ issued < MaxRequests
    /\ PoolFree
    /\ issued' = issued + 1
    /\ Finish(c, get_bookings_response(bookings, user_id))
    /\ UNCHANGED <<userVars, bookVars, catVars, checkedOut>>

\* ---------------------------------------------------------- admin catalogs
CharLength(str) == IF str = LongName THEN VarcharMax + 1 ELSE 4

\* except Exception as e: raise HTTPException(500, f"An error occurred: {e}")
\* An outcome is what the try block did: returned a value or raised.
Return(value) == [raised |-> FALSE, value |-> value]
Raise(exc) == [raised |-> TRUE, value |-> exc]

\* A store or filesystem error, as an exception
Error(type) == [error |-> type]

\* str(e): of an HTTPException "<status_code>: <detail>", else the error text
exc_str(exc) ==
    IF "status" \in DOMAIN exc
    THEN <<ToString(exc.status), ": ">> \o exc.body.detail
    ELSE <<exc.error>>

except_Exception(outcome) ==
    IF outcome.raised
    THEN HTTPException(500, <<"An error occurred: ">> \o exc_str(outcome.value))
    ELSE outcome.value

\* file_location = UPLOAD_DIR / filename
file_location(filename) == <<"uploaded_images", filename>>

\* file_location.open("wb"): succeeds when the parent directory exists
open_ok(filename) == filename \in PlainFilenames

\* buffer.write(data) on a handle opened at offset 0, then close
write_at_start(content, data) ==
    LET old == IF content = NoFile THEN <<>> ELSE content
    IN  IF Len(old) <= Len(data) THEN data
        ELSE data \o SubSeq(old, Len(data) + 1, Len(old))

\* name VARCHAR(255) NOT NULL
catalog_insert_ok(k, form) == CharLength(form.name) <= VarcharMax

catalog_row(k, id, path, form) ==
    CASE k = "events" ->
           [id |-> id, pic_path |-> path, name |-> form.name,
            description |-> form.description, price |-> form.price]
      [] k = "services" ->
           [id |-> id, image_path |-> path, name |-> form.name,
            description |-> form.description]
      [] k = "team_members" ->
           [id |-> id, image_path |-> path, name |-> form.name,
            designation |-> form.designation,
            description |-> form.description]

added_message(k) ==
    CASE k = "events" -> "Event added successfully!"
      [] k = "services" -> "Service added successfully!"
      [] k = "team_members" -> "Team member added successfully!"

\* A faulty variant: a failed open is swallowed and the insert goes ahead.
add_open_swallow(c, k, form) ==
    /\ pc[c] = "idle"
    /\ issued < MaxRequests
    /\ issued' = issued + 1
    /\ IF open_ok(form.filename)
       THEN /\ files' = [files EXCEPT ![form.filename] = <<>>]
            /\ pc' = [pc EXCEPT ![c] = "add_write"]
       ELSE /\ files' = files
            /\ pc' = [pc EXCEPT ![c] = "add_insert"]
    /\ local' = [local EXCEPT ![c] = [op |-> "add", k |-> k, form |-> form]]
    /\ UNCHANGED <<userVars, bookVars, catalog, catalog_id_seq, checkedOut, resp>>

\* add_event / add_service / add_team_member, up to the await of the read:
\* the file is opened for writing, which creates or truncates it.
add_open(c, k, form) ==
    /\ pc[c] = "idle"
    /\ issued < MaxRequests
    /\ issued' = issued + 1
    /\ IF open_ok(form.filename)
       THEN /\ files' = [files EXCEPT ![form.filename] = <<>>]
            /\ pc' = [pc EXCEPT ![c] = "add_write"]
            /\ local' = [local EXCEPT ![c] =
                   [op |-> "add", k |-> k, form |-> form]]
            /\ UNCHANGED resp
       ELSE /\ files' = files
            /\ Finish(c, except_Exception(Raise(Error("FileNotFoundError"))))
    /\ UNCHANGED <<userVars, bookVars, catalog, catalog_id_seq, checkedOut>>

\* buffer.write(await pic.read()) and the close, up to the await of the INSERT
add_write(c) ==
    /\ pc[c] = "add_write"
    /\ files' = [files EXCEPT ![local[c].form.filename] =
                     write_at_start(@, local[c].form.data)]
    /\ pc' = [pc EXCEPT ![c] = "add_insert"]
    /\ UNCHANGED <<userVars, bookVars, catalog, catalog_id_seq, checkedOut,
                   local, resp, issued>>

\* await conn.execute(INSERT ...) and the return
add_insert(c) ==
    /\ pc[c] = "add_insert"
    /\ PoolFree
    /\ LET k == local[c].k
           form == local[c].form
           id == catalog_id_seq[k] + 1
       IN  /\ catalog_id_seq' = [catalog_id_seq EXCEPT ![k] = id]
           /\ IF catalog_insert_ok(k, form)
              THEN /\ catalog' = [catalog EXCEPT ![k] = Append(@,
                          catalog_row(k, id, file_location(form.filename), form))]
                   /\ Finish(c, except_Exception(
                          Return(Ok([message |-> added_message(k)]))))
              ELSE /\ catalog' = catalog
                   /\ Finish(c, except_Exception(
                          Raise(Error("StringDataRightTruncationError"))))
    /\ UNCHANGED <<userVars, bookVars, files, checkedOut, issued>>

none_found(k) ==
    CASE k = "events" -> "No events found."
      [] k = "services" -> "No services found."
      [] k = "team_members" -> "No team members found."

\* The try block of get_all_events / get_all_services / get_all_team_members
get_all_try(k, tbl) ==
    IF tbl = <<>>
    THEN Raise(HTTPException(404, none_found(k)))
    ELSE Return(Ok([items |-> k,
                    list |-> [i \in 1..Len(tbl) |->
                                 catalog_row(k, tbl[i].id,
                                     IF k = "events" THEN tbl[i].pic_path
                                     ELSE tbl[i].image_path,
                                     tbl[i])]]))

get_all_response(k, tbl) == except_Exception(get_all_try(k, tbl))

get_all(c, k) ==
    /\ pc[c] = "idle"
    /\ issued < MaxRequests
    /\ PoolFree
    /\ issued' = issued + 1
    /\ Finish(c, get_all_response(k, catalog[k]))
    /\ UNCHANGED <<userVars, bookVars, catVars, checkedOut>>

\* A faulty variant: the WHERE clause compares with <= instead of =.
delete_rows_upto(tbl, id) == LET Keep(r) == r.id > id IN SelectSeq(tbl, Keep)

\* DELETE FROM <table> WHERE id = $1: the rows left, and the command tag
delete_rows(tbl, id) == LET Keep(r) == r.id # id IN SelectSeq(tbl, Keep)

delete_tag(tbl, id) == <<"DELETE", Len(tbl) - Len(delete_rows(tbl, id))>>

not_found(k) ==
    CASE k = "events" -> "Event not found."
      [] k = "services" -> "Service not found."
      [] k = "team_members" -> "Team member not found."

deleted_message(k) ==
    CASE k = "events" -> "Event deleted successfully."
      [] k = "services" -> "Service deleted successfully."
      [] k = "team_members" -> "Team member deleted successfully."

\* The try block of delete_event / delete_service / delete_team_member
delete_try(k, result) ==
    IF result = <<"DELETE", 0>>
    THEN Raise(HTTPException(404, not_found(k)))
    ELSE Return(Ok([message |-> deleted_message(k)]))

delete_response(k, tbl, id) == except_Exception(delete_try(k, delete_tag(tbl, id)))

delete(c, k, id) ==
    /\ pc[c] = "idle"
    /\ issued < MaxRequests
    /\ PoolFree
    /\ issued' = issued + 1
    /\ catalog' = [catalog EXCEPT ![k] = delete_rows(@, id)]
    /\ Finish(c, delete_response(k, catalog[k], id))
    /\ UNCHANGED <<userVars, bookVars, catalog_id_seq, files, checkedOut>>

\* ---------------------------------------------------------- specifications
Init ==
    /\ users = <<>>
    /\ users_id_seq = 0
    /\ uuidCount = 0
    /\ bookings = <<>>
    /\ bookings_id_seq = 0
    /\ catalog = [k \in Catalogs |-> <<>>]
    /\ catalog_id_seq = [k \in Catalogs |-> 0]
    /\ files = [fn \in Filenames |-> NoFile]
    /\ checkedOut = 0
    /\ pc = [c \in Clients |-> "idle"]
    /\ local = [c \in Clients |-> NoLocal]
    /\ resp = NoResp
    /\ issued = 0

NextUsers ==
    \E c \in Clients :
        \/ \E e \in Emails, u \in Usernames, p \in Passwords, s \in Salts :
               signup_lookup(c, e, u, p, s)
        \/ signup_insert(c)
        \/ \E e \in Emails, p \in Passwords : login(c, e, p)

SpecUsers == Init /\ [][NextUsers]_vars

\* The forms of the add requests: every name, filename and upload.
AddForms(k) ==
    [name : Names, description : {"text"}, filename : Filenames, data : FileData,
     price : IF k = "events" THEN {10} ELSE {0},
     designation : IF k = "team_members" THEN {"chef"} ELSE {""}]

\* The forms whose upload is one file: what the list and delete handlers need.
PlainForms(k) == {form \in AddForms(k) : form.filename = "a.png" /\ form.data = <<1>>}

CatalogIds == 1..2

\* The admin routes of the three catalogs.
NextCatalog ==
    \E c \in Clients, k \in Catalogs :
        \/ \E form \in PlainForms(k) : add_open(c, k, form)
        \/ add_write(c)
        \/ add_insert(c)
        \/ get_all(c, k)
        \/ \E id \in CatalogIds : delete(c, k, id)

SpecCatalog == Init /\ [][NextCatalog]_vars

\* The add routes alone, with every upload.
NextUploads ==
    \E c \in Clients, k \in Catalogs :
        \/ \E form \in AddForms(k) : add_open(c, k, form)
        \/ add_write(c)
        \/ add_insert(c)

SpecUploads == Init /\ [][NextUploads]_vars

\* The bookings handlers, started from a store two signups have filled.
SeedUsers ==
    users_insert(
        users_insert(<<>>, 1, 1, "a@x.io", "alice", hash_password("pw1", "s1")),
        2, 2, "b@x.io", "bob", hash_password("pw2", "s1"))

BookingUserIds == 1..(Len(SeedUsers) + 1)
NoNote == "None"
BookingBodies ==
    [user_id : BookingUserIds, name : {"Ann"}, email : {"a@x.io"},
     datetime : {Naive(10), Aware(10, 5)},
     no_of_people : {2}, special_request : {NoNote, "window"}]

InitBookings ==
    /\ users = SeedUsers
    /\ users_id_seq = Len(SeedUsers)
    /\ uuidCount = Len(SeedUsers)
    /\ bookings = <<>>
    /\ bookings_id_seq = 0
    /\ catalog = [k \in Catalogs |-> <<>>]
    /\ catalog_id_seq = [k \in Catalogs |-> 0]
    /\ files = [fn \in Filenames |-> NoFile]
    /\ checkedOut = 0
    /\ pc = [c \in Clients |-> "idle"]
    /\ local = [c \in Clients |-> NoLocal]
    /\ resp = NoResp
    /\ issued = 0

NextBookings ==
    \E c \in Clients :
        \/ \E body \in BookingBodies : book_table_acquire(c, body)
        \/ book_table_insert(c)
        \/ book_table_release(c)
        \/ \E u \in BookingUserIds : get_bookings(c, u)

SpecBookings == InitBookings /\ [][NextBookings]_vars

\* ================================================================== claims
EmailCount(tbl, email) == Cardinality({i \in 1..Len(tbl) : tbl[i].email = email})
UserIds(tbl) == {tbl[i].user_id : i \in 1..Len(tbl)}
Ids(tbl) == {tbl[i].id : i \in 1..Len(tbl)}
Range(seq) == {seq[i] : i \in 1..Len(seq)}
AllIdle == \A c \in Clients : pc[c] = "idle"

\* The step of client c that runs the INSERT of signup and returns.
SignupInsertStep(c) == pc[c] = "signup_insert" /\ pc'[c] = "idle"

\* ------------------------------------------------------------------ C3
EmailsDistinct ==
    \A i, j \in 1..Len(users) : i # j => users[i].email # users[j].email

C3_SuccessAddsFirstRow ==
    \A c \in Clients :
        (SignupInsertStep(c) /\ resp'.status = 200) =>
            /\ EmailCount(users, local[c].email) = 0
            /\ EmailCount(users', local[c].email) = 1

C3_RowsStay ==
    \A e \in Emails : EmailCount(users', e) >= EmailCount(users, e)

\* C3: in every reachable state no two user rows have the same email, under
\* every interleaving of signups; a signup answers success only in the step
\* that stores the first row of its email, and rows never go away, so at most
\* one signup per email ever returns success.
C3_EmailUnique ==
    /\ []EmailsDistinct
    /\ [][C3_SuccessAddsFirstRow /\ C3_RowsStay]_vars

\* Two signups of one email both passed the lookup; one has stored its row and
\* the other is about to run its INSERT.
C3_Witness ==
    \E c \in Clients :
        /\ pc[c] = "signup_insert"
        /\ EmailCount(users, local[c].email) = 1
        /\ resp.status = 200

\* ------------------------------------------------------------------ C4
Conflict == HTTPException(400, <<"Email is already registered.">>)

C4_TakenEmail ==
    \A c \in Clients, e \in Emails, u \in Usernames, p \in Passwords, s \in Salts :
        (signup_lookup(c, e, u, p, s) /\ EmailCount(users, e) > 0) =>
            /\ resp' = Conflict
            /\ pc'[c] = "idle"
            /\ users' = users

C4_NotRefused ==
    \A c \in Clients, e \in Emails, u \in Usernames, p \in Passwords, s \in Salts :
        (signup_lookup(c, e, u, p, s) /\ EmailCount(users, e) = 0) =>
            /\ pc'[c] = "signup_insert"
            /\ local'[c].email = e /\ local'[c].username = u
            /\ local'[c].password = p
            /\ users' = users
            /\ resp' = resp

C4_FreshEmail ==
    \A c \in Clients :
        (SignupInsertStep(c) /\ EmailCount(users, local[c].email) = 0) =>
            LET l == local[c]
                seen == login_response(users', l.email, l.password)
            IN  /\ resp'.status = 200
                /\ Len(users') = Len(users) + 1
                /\ SubSeq(users', 1, Len(users)) = users
                /\ users'[Len(users')].email = l.email
                /\ users'[Len(users')].user_id \notin UserIds(users)
                /\ resp'.body.user_id = users'[Len(users')].user_id
                /\ seen.status = 200
                /\ seen.body.user.username = l.username

C4_LaterLookup ==
    \A i \in 1..Len(users) : \A p \in Passwords : \A s \in Salts :
        users[i].password = hash_password(p, s) =>
            LET seen == login_response(users, users[i].email, p)
            IN  seen.status = 200 /\ seen.body.user.username = users[i].username

InvalidLogin == HTTPException(400, <<"Invalid email or password.">>)

Known(email) == EmailCount(users, email) > 0

\* The password is the one the stored hash was made from.
Correct(email, password) ==
    \E i \in 1..Len(users) : \E s \in Salts :
        users[i].email = email /\ users[i].password = hash_password(password, s)

C6_Success(email, password) ==
    LET r == login_response(users, email, password)
        row == fetchrow_user(users, email)
    IN  /\ r.status = 200
        /\ DOMAIN r.body = {"message", "user"}
        /\ DOMAIN r.body.user = {"user_id", "email", "username"}
        /\ r.body.user = [user_id |-> row.user_id, email |-> row.email,
                          username |-> row.username]

\* C6: a login with an unknown email and a login with a known email and a
\* wrong password get the identical response (status 400, one message); a
\* login with the right password succeeds with exactly user_id, email and
\* username of that user, never the stored hash.
C6_LoginUniform ==
    /\ \A e \in Emails, p \in Passwords :
           IF Known(e) /\ Correct(e, p)
           THEN C6_Success(e, p)
           ELSE login_response(users, e, p) = InvalidLogin
    /\ \A e1, e2 \in Emails, p1, p2 \in Passwords :
           (~Known(e1) /\ Known(e2) /\ ~Correct(e2, p2)) =>
               login_response(users, e1, p1) = login_response(users, e2, p2)

\* A login was just refused in a state with a known and an unknown email.
C6_Witness ==
    /\ resp = InvalidLogin
    /\ \E e1, e2 \in Emails, p2 \in Passwords :
           ~Known(e1) /\ Known(e2) /\ ~Correct(e2, p2)

\* ------------------------------------------------------------------ C9
\* C9: when the INSERT of a signup runs after another signup stored the same
\* email (both lookups came first), the store rejects it and the request ends
\* as an unhandled failure (500), not as the 400 Conflict, and no row is
\* added; otherwise it answers 200 with its user_id.  Either way exactly one
\* row holds that email afterwards.
C9_LostRace ==
    [][\A c \in Clients :
          SignupInsertStep(c) =>
              /\ IF EmailCount(users, local[c].email) > 0
                 THEN /\ resp' = Unhandled
                      /\ resp'.status = 500
                      /\ resp' # Conflict
                      /\ users' = users
                 ELSE /\ resp'.status = 200
                      /\ resp'.body.user_id = local[c].user_id
              /\ EmailCount(users', local[c].email) = 1]_vars

\* Both signups are over: one row, and the last answer was the failure.
C9_Witness ==
    /\ AllIdle
    /\ resp = Unhandled
    /\ \E e \in Emails : EmailCount(users, e) = 1

\* ------------------------------------------------------------------ C5
Holding == {c \in Clients : pc[c] \in {"book_insert", "book_release"}}

Instant(dt) == IF dt.aware THEN dt.wall - dt.offset ELSE dt.wall

Listed(tbl, user_id) ==
    LET r == get_bookings_response(tbl, user_id)
    IN  IF r.status = 200 THEN r.body.bookings ELSE <<>>

BookInsertStep(c) == pc[c] = "book_insert" /\ pc'[c] = "book_release"

C7_EmptyIsNotFound ==
    \A u \in BookingUserIds :
        IF \E i \in 1..Len(bookings) : bookings[i].user_id = u
        THEN get_bookings_response(bookings, u).status = 200
        ELSE get_bookings_response(bookings, u).status = 404

C7_BookAddsEntry ==
    \A c \in Clients :
        BookInsertStep(c) =>
            LET b == local[c].body
                before == Listed(bookings, b.user_id)
                after == Listed(bookings', b.user_id)
            IN  IF local'[c].outcome.status = 200
                THEN /\ Len(after) = Len(before) + 1
                     /\ SubSeq(after, 1, Len(before)) = before
                     /\ after[Len(after)].name = b.name
                     /\ after[Len(after)].email = b.email
                     /\ Instant(after[Len(after)].datetime) = Instant(b.datetime)
                     /\ after[Len(after)].datetime.aware
                     /\ after[Len(after)].datetime.offset = 0
                     /\ after[Len(after)].no_of_people = b.no_of_people
                     /\ after[Len(after)].special_request = b.special_request
                     /\ \A v \in BookingUserIds \ {b.user_id} :
                            Listed(bookings', v) = Listed(bookings, v)
                ELSE bookings' = bookings

C7_OnlyBookAdds ==
    (\A c \in Clients : ~BookInsertStep(c)) => bookings' = bookings

\* C7: get_bookings of a user_id with no booking rows answers 404; each
\* successful book_table appends to that user's list exactly one entry whose
\* name, email, no_of_people and special_request are those submitted and
\* whose datetime is the submitted instant in UTC, and changes no other
\* user's list; nothing else changes a list.
C7_Bookings ==
    /\ []C7_EmptyIsNotFound
    /\ [][C7_BookAddsEntry /\ C7_OnlyBookAdds]_vars

\* Two users have one booking each and one of them was just listed.
C7_Witness ==
    /\ resp.status = 200
    /\ DOMAIN resp.body = {"user_id", "bookings"}
    /\ Len(resp.body.bookings) = 1
    /\ Len(bookings) = 2

\* ------------------------------------------------------------------ C1
\* C1 (as claimed): a list-all of an empty catalog answers 404, of a
\* non-empty one 200 with every stored row.
C1_ListAllStatus ==
    [][\A c \in Clients, k \in Catalogs :
          get_all(c, k) =>
              IF catalog[k] = <<>>
              THEN resp'.status = 404
              ELSE resp'.status = 200 /\ resp'.body.list = catalog[k]]_vars

\* ------------------------------------------------------------------ C2
\* C2 (as claimed): a delete of an id no row has answers 404 and leaves the
\* rows unchanged.
C2_DeleteAbsent ==
    [][\A c \in Clients, k \in Catalogs, id \in CatalogIds :
          (delete(c, k, id) /\ id \notin Ids(catalog[k])) =>
              resp'.status = 404 /\ catalog' = catalog]_vars

\* ------------------------------------------------------------------ C8
C8_DeleteExisting ==
    \A c \in Clients, k \in Catalogs, id \in CatalogIds :
        (delete(c, k, id) /\ id \in Ids(catalog[k])) =>
            /\ resp'.status = 200
            /\ Len(catalog'[k]) = Len(catalog[k]) - 1
            /\ Range(catalog'[k]) = {r \in Range(catalog[k]) : r.id # id}
            /\ \A j \in Catalogs \ {k} : catalog'[j] = catalog[j]
            /\ UNCHANGED <<users, bookings, files>>
            /\ LET r == get_all_response(k, catalog'[k])
               IN  r.status = 200 =>
                       \A i \in 1..Len(r.body.list) : r.body.list[i].id # id

C8_NeverBack ==
    \A k \in Catalogs : \A id \in 1..catalog_id_seq[k] :
        id \notin Ids(catalog[k]) => id \notin Ids(catalog'[k])

\* C8: deleting an id a row has answers 200, removes exactly that row, leaves
\* every other row of that table and all other tables unchanged, and the id
\* is in no later list of the catalog.
C8_DeleteFrame == [][C8_DeleteExisting /\ C8_NeverBack]_vars

\* A row was just deleted and another row of the same catalog is still there.
C8_Witness ==
    \E k \in Catalogs :
        /\ resp = Ok([message |-> deleted_message(k)])
        /\ catalog[k] # <<>>
        /\ catalog_id_seq[k] = 2

\* ------------------------------------------------------------------ C10
AddOpenStep(c) == pc[c] = "idle" /\ pc'[c] = "add_write"
AddInsertStep(c) == pc[c] = "add_insert" /\ pc'[c] = "idle"

\* A request that starts and ends in one step is an add whose open failed.
C10_WriteFailed ==
    (issued' # issued /\ pc' = pc) =>
        /\ \E c \in Clients, k \in Catalogs : \E form \in AddForms(k) :
               add_open(c, k, form) /\ ~open_ok(form.filename)
        /\ resp'.status = 500
        /\ catalog' = catalog
        /\ catalog_id_seq' = catalog_id_seq
        /\ files' = files

C10_InsertStep ==
    \A c \in Clients :
        AddInsertStep(c) =>
            LET k == local[c].k
                form == local[c].form
            IN  /\ files' = files
                /\ files[form.filename] # NoFile
                /\ catalog_id_seq'[k] = catalog_id_seq[k] + 1
                /\ IF catalog_insert_ok(k, form)
                   THEN /\ resp'.status = 200
                        /\ Len(catalog'[k]) = Len(catalog[k]) + 1
                   ELSE /\ resp'.status = 500
                        /\ catalog' = catalog

C10_WriteStep ==
    \A c \in Clients :
        (pc[c] = "add_write" /\ pc'[c] = "add_insert") =>
            LET form == local[c].form
                now == files'[form.filename]
            IN  /\ catalog' = catalog /\ catalog_id_seq' = catalog_id_seq
                /\ Len(now) >= Len(form.data)
                /\ SubSeq(now, 1, Len(form.data)) = form.data
                /\ files[form.filename] = <<>> => now = form.data

C10_OpenStep ==
    \A c \in Clients :
        AddOpenStep(c) =>
            /\ files'[local'[c].form.filename] = <<>>
            /\ catalog' = catalog /\ catalog_id_seq' = catalog_id_seq

C10_InsertOnlyAfterWrite ==
    (catalog_id_seq' # catalog_id_seq) => \E c \in Clients : AddInsertStep(c)

\* C10: each add handler writes the upload first and inserts second; when the
\* file cannot be written no insert is attempted; when the insert fails after
\* the write, the request ends with 500, no row is added and the file stays
\* as written (opening it discarded what a file of that name held, and the
\* write put the upload at its start).
C10_WriteThenInsert ==
    [][C10_WriteFailed /\ C10_OpenStep /\ C10_WriteStep /\ C10_InsertStep
       /\ C10_InsertOnlyAfterWrite]_vars

\* An insert just failed: no row anywhere, and the upload is on disk.
C10_Witness ==
    /\ resp = except_Exception(Raise(Error("StringDataRightTruncationError")))
    /\ \A k \in Catalogs : catalog[k] = <<>>
    /\ \E fn \in PlainFilenames : files[fn] \in FileData

====
